---- MODULE Spec2Model ----
(***************************************************************************)
(* Model of the access-controlled knowledge base of                        *)
(* src/agent-with-search/documentai.py (class AzureAISearchKnowledgeBase). *)
(*                                                                         *)
(* The host index (Azure AI Search) is the variable `index`: a set of      *)
(* chunk records keyed by the field `id`.  upload_documents is a batch     *)
(* upsert by id, merge_documents a partial update by id, delete_documents  *)
(* a batch removal by id; each batch is applied atomically.  Every call to *)
(* the host or to an extractor may raise, which the methods catch.         *)
(*                                                                         *)
(* Representation choices:                                                 *)
(*  - a file name is a sequence of one-character strings, so that the id   *)
(*    sanitisation can be computed character by character;                 *)
(*  - a text is identified by its number of words n (its words are the     *)
(*    positions 0..n-1 of that text); the chunk " ".join(words[lo:hi]) is  *)
(*    the record [text |-> n, lo |-> lo, hi |-> hi];                       *)
(*  - a Python list of user ids is kept up to the order of its elements,   *)
(*    as the function giving the number of occurrences of each user: no    *)
(*    operation of the code (in, +, append, set, any) observes the order;  *)
(*  - the id f"{safe_doc_name}_{idx}" is the pair <<safe_doc_name, idx>>:  *)
(*    idx is printed in digits, so the text after the last '_' determines  *)
(*    idx and the text before it determines safe_doc_name.                 *)
(*                                                                         *)
(* Assumptions on the host: a filter expression selects the records that   *)
(* satisfy it (user ids and file names contain no quote character); a      *)
(* query given no `top` returns every record that passes its filter.  The  *)
(* fields uploaded_at and the relevance scores, and the list uploaded_docs *)
(* kept by the object, play no role in the properties and are left out.    *)
(*                                                                         *)
(* Specifications:                                                         *)
(*  - Spec: the operations on the index, with the chunker's defaults;      *)
(*  - SpecChunker: _create_chunks alone, called once with a text length, a *)
(*    chunk_size and an overlap drawn from small ranges (variable          *)
(*    `chunker`, which Spec leaves idle);                                  *)
(*  - SpecShare: two concurrent share_document calls on one document, each *)
(*    split at its two calls to the host, the query and the merge          *)
(*    (variable `sharers`);                                                *)
(*  - SpecTemp: the two callers of upload_document that write a temporary  *)
(*    file, upload_from_blob and the upload handler of app.py (variable    *)
(*    `temp`);                                                             *)
(*  - SpecIndex: repeated construction of the knowledge base against the   *)
(*    search service (variable `service`);                                 *)
(*  - SpecAuth: the Streamlit sign-in session of entraid_auth.py (variable *)
(*    `session`).                                                          *)
(***************************************************************************)
EXTENDS Integers, Sequences, FiniteSets, TLC

VARIABLES index, result, last, chunker, sharers, temp, service, session

vars == <<index, last, result, chunker, sharers, temp, service, session>>

\* the variables of the other specifications, which Spec leaves idle
aux == <<chunker, sharers, temp, service, session>>

\* the variables of the knowledge base operations
kb == <<index, result, last>>

----------------------------------------------------------------------------
(* Bounds and inputs *)

\* the longest text that is uploaded, in words
MaxWords == 1001

Users == {"alice", "bob", "carol"}

\* the users who upload documents
Owners == {"alice", "bob"}

\* "a b.txt" and "a.b.txt"
DocNames == { <<"a", " ", "b", ".", "t", "x", "t">>,
              <<"a", ".", "b", ".", "t", "x", "t">> }

\* "a.md", a file of an unsupported type
OtherNames == { <<"a", ".", "m", "d">> }

TextLens == {0, 1, MaxWords}

\* allowed_users = None (a value that is no list)
None == <<>>

NoUsers == [u \in Users |-> 0]

ListOf(s) == [u \in Users |-> Cardinality({i \in DOMAIN s : s[i] = u})]

\* the lists passed as allowed_users to upload_document
AllowedLists == { ListOf(<<"alice">>) }

\* the lists passed as target_user_ids to share_document
TargetLists == { ListOf(<<"alice">>) }

----------------------------------------------------------------------------
(* Python lists of user ids, up to order *)

InList(u, l) == l[u] > 0

ListAppend(l, u) == [l EXCEPT ![u] = @ + 1]

ListConcat(l1, l2) == [u \in Users |-> l1[u] + l2[u]]

\* list(set(l))
ListSet(l) == [u \in Users |-> IF l[u] > 0 THEN 1 ELSE 0]

Elems(l) == {u \in Users : l[u] > 0}

NoDuplicates(l) == \A u \in Users : l[u] <= 1

----------------------------------------------------------------------------
(* upload_document: file name handling *)

Alnum == {"a", "b", "c", "d", "e", "f", "g", "h", "i", "j", "k", "l", "m",
          "n", "o", "p", "q", "r", "s", "t", "u", "v", "w", "x", "y", "z",
          "0", "1", "2", "3", "4", "5", "6", "7", "8", "9"}

SupportedExt == { <<".", "p", "d", "f">>, <<".", "d", "o", "c", "x">>,
                  <<".", "t", "x", "t">>, <<".", "c", "s", "v">>,
                  <<".", "x", "l", "s", "x">>, <<".", "x", "l", "s">>,
                  <<".", "p", "n", "g">>, <<".", "j", "p", "g">>,
                  <<".", "j", "p", "e", "g">>, <<".", "t", "i", "f", "f">>,
                  <<".", "b", "m", "p">> }

\* Path(file_path).suffix: from the last '.' on, unless it is the first
\* character or the last one
Suffix(name) ==
    LET dots == {i \in DOMAIN name : name[i] = "."}
    IN  IF dots = {} THEN <<>>
        ELSE LET d == CHOOSE i \in dots : \A j \in dots : j <= i
             IN  IF d = 1 \/ d = Len(name) THEN <<>>
                 ELSE SubSeq(name, d, Len(name))

\* doc_name.replace('.', '_').replace(' ', '_'), then the characters that
\* are alphanumeric or one of '_', '-', '='
SafeDocName(name) ==
    LET replaced == [i \in DOMAIN name |->
                        IF name[i] \in {".", " "} THEN "_" ELSE name[i]]
    IN  SelectSeq(replaced, LAMBDA c : c \in Alnum \/ c \in {"_", "-", "="})

----------------------------------------------------------------------------
(* _create_chunks *)

chunk_size == 1000
overlap == 200

Min(a, b) == IF a <= b THEN a ELSE b

\* range(start, stop, step) for step # 0: upwards to stop when step > 0,
\* downwards to stop when step < 0
RECURSIVE Range(_, _, _)
Range(start, stop, step) ==
    IF step > 0
    THEN IF start >= stop THEN <<>>
         ELSE <<start>> \o Range(start + step, stop, step)
    ELSE IF start <= stop THEN <<>>
         ELSE <<start>> \o Range(start + step, stop, step)

\* range(start, stop, 0) raises ValueError
RangeRaises(step) == step = 0

CreateChunks_NoOverlap(n, size, ov) ==
    LET starts  == Range(0, n, size)
        windows == [k \in DOMAIN starts |->
                       [text |-> n, lo |-> starts[k],
                        hi |-> Min(n, starts[k] + size)]]
    IN  SelectSeq(windows, LAMBDA w : w.lo < w.hi)

\* the windows words[i:i + size] for i in range(0, len(words), size - ov);
\* a window of no words is skipped
CreateChunks(n, size, ov) ==
    LET starts  == Range(0, n, size - ov)
        windows == [k \in DOMAIN starts |->
                       [text |-> n, lo |-> starts[k],
                        hi |-> Min(n, starts[k] + size)]]
    IN  SelectSeq(windows, LAMBDA w : w.lo < w.hi)

----------------------------------------------------------------------------
(* The host index *)

Ids(recs) == {r.id : r \in recs}

\* upload_documents: batch upsert keyed by id
Upsert(idx, docs) == {r \in idx : r.id \notin Ids(docs)} \cup docs

Merge_FullRewrite(idx, updates) ==
    {IF r.id \in Ids(updates)
        THEN [r EXCEPT !.allowed_users =
                 (CHOOSE m \in updates : m.id = r.id).allowed_users,
                       !.content = [text |-> 0, lo |-> 0, hi |-> 0]]
        ELSE r : r \in idx}

Merge_ClearsShared(idx, updates) ==
    {IF r.id \in Ids(updates)
        THEN [r EXCEPT !.allowed_users =
                 (CHOOSE m \in updates : m.id = r.id).allowed_users,
                       !.is_shared = FALSE]
        ELSE r : r \in idx}

\* merge_documents: partial update of allowed_users, keyed by id
Merge(idx, updates) ==
    {IF r.id \in Ids(updates)
        THEN [r EXCEPT !.allowed_users =
                 (CHOOSE m \in updates : m.id = r.id).allowed_users]
        ELSE r : r \in idx}

\* delete_documents: batch removal by id
DeleteIds(idx, ids) == {r \in idx : r.id \notin ids}

\* the embedding of a text is determined by the text
Embedding(chunk) == <<"vector", chunk>>

----------------------------------------------------------------------------
(* The host's search call *)

\* the orders in which the host may return the records of S
Orderings(S) ==
    {s \in [1 .. Cardinality(S) -> S] : \A i, j \in DOMAIN s : s[i] = s[j] => i = j}

Truncate(s, top) == SubSeq(s, 1, Min(top, Len(s)))

\* search_text="*": every record that passes the filter matches, the host
\* returns the first `top` of them in its own order
MatchAll(matching, top) == {Truncate(s, top) : s \in Orderings(matching)}

\* a query text (and vector): the records that are relevant to the query are
\* some of those that pass the filter
MatchQuery(matching, top) == UNION {MatchAll(T, top) : T \in SUBSET matching}

----------------------------------------------------------------------------
(* upload_document *)

UploadDocs_Renumbered(name, user_id, is_shared, allowed, n, embFail) ==
    LET chunks   == CreateChunks(n, chunk_size, overlap)
        safe     == SafeDocName(name)
        given    == IF allowed = None THEN NoUsers ELSE allowed
        allowedU == IF InList(user_id, given) THEN given
                    ELSE ListAppend(given, user_id)
        kept     == SelectSeq([k \in DOMAIN chunks |-> k],
                              LAMBDA k : (k - 1) \notin embFail)
    IN  { [id             |-> <<safe, j - 1>>,
           content        |-> chunks[kept[j]],
           document_name  |-> name,
           chunk_id       |-> j - 1,
           user_id        |-> user_id,
           owner_user_id  |-> user_id,
           is_shared      |-> is_shared,
           allowed_users  |-> allowedU,
           content_vector |-> Embedding(chunks[kept[j]])]
          : j \in DOMAIN kept }

UploadDocs(name, user_id, is_shared, allowed, n, embFail) ==
    LET chunks   == CreateChunks(n, chunk_size, overlap)
        safe     == SafeDocName(name)
        given    == IF allowed = None THEN NoUsers ELSE allowed
        allowedU == IF InList(user_id, given) THEN given
                    ELSE ListAppend(given, user_id)
    IN  { [id             |-> <<safe, k - 1>>,
           content        |-> chunks[k],
           document_name  |-> name,
           chunk_id       |-> k - 1,
           user_id        |-> user_id,
           owner_user_id  |-> user_id,
           is_shared      |-> is_shared,
           allowed_users  |-> allowedU,
           content_vector |-> Embedding(chunks[k])]
          : k \in {j \in DOMAIN chunks : (j - 1) \notin embFail} }

Upload_NoEmptyCheck(name, user_id, is_shared, allowed, n, embFail, raises) ==
    LET docs == UploadDocs(name, user_id, is_shared, allowed, n, embFail)
        base == [op |-> "upload", name |-> name, words |-> n,
                 written |-> {}, dropped |-> {}]
    IN  IF Suffix(name) \notin SupportedExt
        THEN /\ index' = index
             /\ result' = FALSE
             /\ last' = base @@ [msg |-> "unsupported"]
        ELSE IF raises
        THEN /\ index' = index
             /\ result' = FALSE
             /\ last' = [op |-> "upload", msg |-> "error"]
        ELSE /\ index' = Upsert(index, docs)
             /\ result' = TRUE
             /\ last' = [base EXCEPT !.written = Ids(docs), !.dropped = embFail]
                        @@ [msg |-> "uploaded"]

\* embFail: the chunk indices whose embedding fails; raises: the extractor or
\* the host's upload_documents raises
Upload(name, user_id, is_shared, allowed, n, embFail, raises) ==
    LET docs == UploadDocs(name, user_id, is_shared, allowed, n, embFail)
        base == [op |-> "upload", name |-> name, words |-> n,
                 written |-> {}, dropped |-> {}]
    IN  IF Suffix(name) \notin SupportedExt
        THEN /\ index' = index
             /\ result' = FALSE
             /\ last' = base @@ [msg |-> "unsupported"]
        ELSE IF raises
        THEN /\ index' = index
             /\ result' = FALSE
             /\ last' = [op |-> "upload", msg |-> "error"]
        ELSE IF n = 0
        THEN /\ index' = index
             /\ result' = FALSE
             /\ last' = base @@ [msg |-> "no text"]
        ELSE /\ index' = Upsert(index, docs)
             /\ result' = TRUE
             /\ last' = [base EXCEPT !.written = Ids(docs), !.dropped = embFail]
                        @@ [msg |-> "uploaded"]

----------------------------------------------------------------------------
(* search *)

AccessFilter_NoAllowList(r, user_id) ==
    \/ r.owner_user_id = user_id
    \/ r.is_shared = TRUE

\* owner_user_id eq '{user_id}' or is_shared eq true or
\* allowed_users/any(u: u eq '{user_id}')
AccessFilter(r, user_id) ==
    \/ r.owner_user_id = user_id
    \/ r.is_shared = TRUE
    \/ \E u \in Elems(r.allowed_users) : u = user_id

KeywordFilter_NoAcl(r, user_id) == TRUE

\* the filter passed with the keyword-only query
KeywordFilter(r, user_id) == AccessFilter(r, user_id)

\* the filter passed with the hybrid query
HybridFilter(r, user_id) == AccessFilter(r, user_id)

RetrievedChunk(r) ==
    [content |-> r.content, document_name |-> r.document_name,
     owner |-> r.owner_user_id, is_shared |-> r.is_shared]

Search_FailOnEmbedding(user_id, top_k, embOk, hits, raises) ==
    LET matching == {r \in index : HybridFilter(r, user_id)}
        base == [op |-> "search", user |-> user_id, keywordOnly |-> ~embOk]
    IN  /\ index' = index
        /\ IF raises \/ ~embOk
           THEN /\ result' = <<>>
                /\ last' = [op |-> "search", msg |-> "error"]
           ELSE /\ hits \in MatchQuery(matching, top_k)
                /\ result' = [i \in DOMAIN hits |-> RetrievedChunk(hits[i])]
                /\ last' = base @@ [msg |-> "ok"]

\* embOk: the embedding of the query succeeds; hits: what the host returns
Search(user_id, top_k, embOk, hits, raises) ==
    LET matching == IF embOk
                    THEN {r \in index : HybridFilter(r, user_id)}
                    ELSE {r \in index : KeywordFilter(r, user_id)}
        base == [op |-> "search", user |-> user_id, keywordOnly |-> ~embOk]
    IN  /\ index' = index
        /\ IF raises
           THEN /\ hits = <<>>
                /\ result' = <<>>
                /\ last' = [op |-> "search", msg |-> "error"]
           ELSE /\ hits \in MatchQuery(matching, top_k)
                /\ result' = [i \in DOMAIN hits |-> RetrievedChunk(hits[i])]
                /\ last' = base @@ [msg |-> "ok"]

----------------------------------------------------------------------------
(* get_all_documents *)

ListTop == 1000

\* the dict docs after the loop over results, in insertion order
RECURSIVE GroupByName(_)
GroupByName(results) ==
    IF results = <<>> THEN <<>>
    ELSE LET front == GroupByName(SubSeq(results, 1, Len(results) - 1))
             r     == results[Len(results)]
             known == {i \in DOMAIN front : front[i].name = r.document_name}
         IN  IF known = {}
             THEN Append(front, [name |-> r.document_name,
                                 owner |-> r.owner_user_id,
                                 is_shared |-> r.is_shared,
                                 chunks |-> 1])
             ELSE [i \in DOMAIN front |->
                      IF i \in known
                      THEN [front[i] EXCEPT !.chunks = @ + 1]
                      ELSE front[i]]

GetAllDocuments_LastSeen(user_id, include_shared, results, raises) ==
    LET matching == IF include_shared
                    THEN {r \in index : AccessFilter(r, user_id)}
                    ELSE {r \in index : r.owner_user_id = user_id}
        base == [op |-> "list", user |-> user_id,
                 include_shared |-> include_shared]
        reversed == [i \in DOMAIN results |-> results[Len(results) + 1 - i]]
    IN  /\ index' = index
        /\ IF raises
           THEN /\ results = <<>>
                /\ result' = <<>>
                /\ last' = [op |-> "list", msg |-> "error"]
           ELSE /\ results \in MatchAll(matching, ListTop)
                /\ result' = GroupByName(reversed)
                /\ last' = base @@ [msg |-> "ok"]

GetAllDocuments(user_id, include_shared, results, raises) ==
    LET matching == IF include_shared
                    THEN {r \in index : AccessFilter(r, user_id)}
                    ELSE {r \in index : r.owner_user_id = user_id}
        base == [op |-> "list", user |-> user_id,
                 include_shared |-> include_shared]
    IN  /\ index' = index
        /\ IF raises
           THEN /\ results = <<>>
                /\ result' = <<>>
                /\ last' = [op |-> "list", msg |-> "error"]
           ELSE /\ results \in MatchAll(matching, ListTop)
                /\ result' = GroupByName(results)
                /\ last' = base @@ [msg |-> "ok"]

----------------------------------------------------------------------------
(* delete_document *)

DeleteDocument_NoOwnerCheck(doc_name, user_id, is_admin, raises) ==
    LET results == {r \in index : r.document_name = doc_name}
        doc_ids == Ids(results)
        base == [op |-> "delete", user |-> user_id, name |-> doc_name,
                 is_admin |-> is_admin]
    IN  IF raises
        THEN /\ index' = index
             /\ result' = FALSE
             /\ last' = [op |-> "delete", msg |-> "error"]
        ELSE IF doc_ids # {}
        THEN /\ index' = DeleteIds(index, doc_ids)
             /\ result' = TRUE
             /\ last' = base @@ [msg |-> "deleted"]
        ELSE /\ index' = index
             /\ result' = FALSE
             /\ last' = base @@ [msg |-> "not found"]

\* raises: a call to the host raises
DeleteDocument_AdminChecked(doc_name, user_id, is_admin, raises) ==
    LET check_results == {r \in index : r.document_name = doc_name
                                        /\ r.owner_user_id = user_id}
        results == {r \in index : r.document_name = doc_name}
        doc_ids == Ids(results)
        base == [op |-> "delete", user |-> user_id, name |-> doc_name,
                 is_admin |-> is_admin]
    IN  IF raises
        THEN /\ index' = index
             /\ result' = FALSE
             /\ last' = [op |-> "delete", msg |-> "error"]
        ELSE IF check_results = {}
        THEN /\ index' = index
             /\ result' = FALSE
             /\ last' = base @@ [msg |-> "permission denied"]
        ELSE IF doc_ids # {}
        THEN /\ index' = DeleteIds(index, doc_ids)
             /\ result' = TRUE
             /\ last' = base @@ [msg |-> "deleted"]
        ELSE /\ index' = index
             /\ result' = FALSE
             /\ last' = base @@ [msg |-> "not found"]

DeleteDocument_OwnChunksOnly(doc_name, user_id, is_admin, raises) ==
    LET check_results == {r \in index : r.document_name = doc_name
                                        /\ r.owner_user_id = user_id}
        results == IF is_admin
                   THEN {r \in index : r.document_name = doc_name}
                   ELSE check_results
        doc_ids == Ids(results)
        base == [op |-> "delete", user |-> user_id, name |-> doc_name,
                 is_admin |-> is_admin]
    IN  IF raises
        THEN /\ index' = index
             /\ result' = FALSE
             /\ last' = [op |-> "delete", msg |-> "error"]
        ELSE IF ~is_admin /\ check_results = {}
        THEN /\ index' = index
             /\ result' = FALSE
             /\ last' = base @@ [msg |-> "permission denied"]
        ELSE IF doc_ids # {}
        THEN /\ index' = DeleteIds(index, doc_ids)
             /\ result' = TRUE
             /\ last' = base @@ [msg |-> "deleted"]
        ELSE /\ index' = index
             /\ result' = FALSE
             /\ last' = base @@ [msg |-> "not found"]

DeleteDocument(doc_name, user_id, is_admin, raises) ==
    LET check_results == {r \in index : r.document_name = doc_name
                                        /\ r.owner_user_id = user_id}
        results == {r \in index : r.document_name = doc_name}
        doc_ids == Ids(results)
        base == [op |-> "delete", user |-> user_id, name |-> doc_name,
                 is_admin |-> is_admin]
    IN  IF raises
        THEN /\ index' = index
             /\ result' = FALSE
             /\ last' = [op |-> "delete", msg |-> "error"]
        ELSE IF ~is_admin /\ check_results = {}
        THEN /\ index' = index
             /\ result' = FALSE
             /\ last' = base @@ [msg |-> "permission denied"]
        ELSE IF doc_ids # {}
        THEN /\ index' = DeleteIds(index, doc_ids)
             /\ result' = TRUE
             /\ last' = base @@ [msg |-> "deleted"]
        ELSE /\ index' = index
             /\ result' = FALSE
             /\ last' = base @@ [msg |-> "not found"]

----------------------------------------------------------------------------
(* share_document *)

UpdatedAllowed_NoSet(current_allowed, target_user_ids) ==
    ListConcat(current_allowed, target_user_ids)

UpdatedAllowed_Replace(current_allowed, target_user_ids) ==
    ListSet(target_user_ids)

\* list(set(current_allowed + target_user_ids))
UpdatedAllowed(current_allowed, target_user_ids) ==
    ListSet(ListConcat(current_allowed, target_user_ids))

ShareDocument_AnyOwner(doc_name, owner_user_id, target_user_ids, raises) ==
    LET results == {r \in index : r.document_name = doc_name}
        updated_docs == {[id |-> r.id,
                          allowed_users |-> UpdatedAllowed(r.allowed_users,
                                                           target_user_ids)]
                         : r \in results}
        base == [op |-> "share", user |-> owner_user_id, name |-> doc_name,
                 targets |-> target_user_ids]
    IN  IF raises
        THEN /\ index' = index
             /\ result' = FALSE
             /\ last' = [op |-> "share", msg |-> "error"]
        ELSE IF updated_docs # {}
        THEN /\ index' = Merge(index, updated_docs)
             /\ result' = TRUE
             /\ last' = base @@ [msg |-> "shared", again |-> FALSE]
        ELSE /\ index' = index
             /\ result' = FALSE
             /\ last' = base @@ [msg |-> "not found", again |-> FALSE]

\* raises: a call to the host raises
ShareDocument(doc_name, owner_user_id, target_user_ids, raises) ==
    LET results == {r \in index : r.document_name = doc_name
                                  /\ r.owner_user_id = owner_user_id}
        updated_docs == {[id |-> r.id,
                          allowed_users |-> UpdatedAllowed(r.allowed_users,
                                                           target_user_ids)]
                         : r \in results}
        base == [op |-> "share", user |-> owner_user_id, name |-> doc_name,
                 targets |-> target_user_ids]
    IN  IF raises
        THEN /\ index' = index
             /\ result' = FALSE
             /\ last' = [op |-> "share", msg |-> "error"]
        ELSE IF updated_docs # {}
        THEN /\ index' = Merge(index, updated_docs)
             /\ result' = TRUE
             /\ last' = base @@ [msg |-> "shared",
                                 again |-> /\ last.op = "share"
                                           /\ last.msg = "shared"
                                           /\ last.name = doc_name
                                           /\ last.user = owner_user_id
                                           /\ last.targets = target_user_ids]
        ELSE /\ index' = index
             /\ result' = FALSE
             /\ last' = base @@ [msg |-> "not found", again |-> FALSE]

----------------------------------------------------------------------------

top_k == 3

Idle == [pc |-> "idle"]

Init ==
    /\ index = {}
    /\ result = FALSE
    /\ last = [op |-> "init", msg |-> "init"]
    /\ chunker = Idle
    /\ sharers = Idle
    /\ temp = Idle
    /\ service = Idle
    /\ session = Idle

AnyOf(S) == CHOOSE x \in S : TRUE

\* An input that a call does not reach is given one value: a chunk that does
\* not exist has no embedding to fail, an upload that stops before the chunks
\* are built looks at no sharing setting, and a call that raises returns the
\* same value and leaves the same state whatever its arguments.
UploadStep ==
    \E name \in DocNames \cup OtherNames, user_id \in Owners,
       is_shared \in BOOLEAN, allowed \in AllowedLists \cup {None},
       n \in TextLens,
       embFail \in SUBSET (0 .. MaxWords \div (chunk_size - overlap)),
       raises \in BOOLEAN :
       /\ raises => (name = AnyOf(DocNames) /\ user_id = AnyOf(Owners)
                     /\ n = AnyOf(TextLens))
       /\ name \in OtherNames => n = AnyOf(TextLens)
       /\ (raises \/ name \in OtherNames \/ n = 0) =>
             /\ is_shared = FALSE
             /\ allowed = None
             /\ embFail = {}
       /\ embFail \subseteq
             {k - 1 : k \in DOMAIN CreateChunks(n, chunk_size, overlap)}
       /\ Upload(name, user_id, is_shared, allowed, n, embFail, raises)
       /\ UNCHANGED aux

SearchStep ==
    \E user_id \in Users, embOk \in BOOLEAN, raises \in BOOLEAN :
       /\ raises => (user_id = AnyOf(Users) /\ embOk)
       /\ \E hits \in MatchQuery(index, top_k) :
             Search(user_id, top_k, embOk, hits, raises)
       /\ UNCHANGED aux

ListStep ==
    \E user_id \in Users, include_shared \in BOOLEAN, raises \in BOOLEAN :
       /\ raises => (user_id = AnyOf(Users) /\ include_shared)
       /\ \E results \in MatchQuery(index, ListTop) :
             GetAllDocuments(user_id, include_shared, results, raises)
       /\ UNCHANGED aux

DeleteStep ==
    \E doc_name \in DocNames, user_id \in Users, is_admin \in BOOLEAN,
       raises \in BOOLEAN :
       /\ raises => (doc_name = AnyOf(DocNames) /\ user_id = AnyOf(Users)
                     /\ is_admin)
       /\ DeleteDocument(doc_name, user_id, is_admin, raises)
       /\ UNCHANGED aux

ShareStep ==
    \E doc_name \in DocNames, owner_user_id \in Users,
       target_user_ids \in TargetLists, raises \in BOOLEAN :
       /\ raises => (doc_name = AnyOf(DocNames) /\ owner_user_id = AnyOf(Users))
       /\ ShareDocument(doc_name, owner_user_id, target_user_ids, raises)
       /\ UNCHANGED aux

Next ==
    \/ UploadStep
    \/ SearchStep
    \/ ListStep
    \/ DeleteStep
    \/ ShareStep

Spec == Init /\ [][Next]_vars

----------------------------------------------------------------------------
(* _create_chunks called on its own *)

\* the longest text given to the chunker, in words
MaxN == 12

\* the largest chunk_size given to the chunker
MaxSize == 4

\* small texts and parameters, valid or not, and the text of 2400 words
\* with the default parameters
ChunkerInputs ==
    [n : 0 .. MaxN, size : 1 .. MaxSize, ov : -1 .. MaxSize + 1]
    \cup {[n |-> 2400, size |-> chunk_size, ov |-> overlap]}

InitChunker ==
    /\ index = {}
    /\ result = FALSE
    /\ last = [op |-> "init", msg |-> "init"]
    /\ sharers = Idle
    /\ temp = Idle
    /\ service = Idle
    /\ session = Idle
    /\ \E in \in ChunkerInputs :
          chunker = [pc |-> "call", n |-> in.n, size |-> in.size,
                     ov |-> in.ov, raised |-> FALSE, out |-> <<>>]

\* one call _create_chunks(text, chunk_size, overlap): it returns the list
\* of chunks, or the ValueError of range() escapes
CreateChunksCall ==
    /\ chunker.pc = "call"
    /\ chunker' =
          IF RangeRaises(chunker.size - chunker.ov)
          THEN [chunker EXCEPT !.pc = "done", !.raised = TRUE]
          ELSE [chunker EXCEPT !.pc = "done",
                   !.out = CreateChunks(chunker.n, chunker.size, chunker.ov)]
    /\ UNCHANGED <<kb, sharers, temp, service, session>>

NextChunker == CreateChunksCall

SpecChunker == InitChunker /\ [][NextChunker]_vars

----------------------------------------------------------------------------
(* Two concurrent calls of share_document on one document *)

Callers == {1, 2}

SharedDoc == <<"a", " ", "b", ".", "t", "x", "t">>

SharedOwner == "bob"

ShareTargets == { ListOf(<<"alice">>), ListOf(<<"carol">>),
                  ListOf(<<"alice", "carol">>) }

\* the index after one upload of the document in two chunks, and the index
\* after that upload followed by an upload of a shorter text of the same
\* name with another allowed_users, which rewrites chunk 0 only
ShareIndexes ==
    { UploadDocs(SharedDoc, SharedOwner, sh, al, MaxWords, {}) :
         sh \in BOOLEAN, al \in AllowedLists \cup {None} }
    \cup
    { Upsert(UploadDocs(SharedDoc, SharedOwner, FALSE, None, MaxWords, {}),
             UploadDocs(SharedDoc, SharedOwner, FALSE, al, 1, {})) :
         al \in AllowedLists }

InitShare ==
    /\ index \in ShareIndexes
    /\ result = FALSE
    /\ last = [op |-> "init", msg |-> "init"]
    /\ chunker = Idle
    /\ temp = Idle
    /\ service = Idle
    /\ session = Idle
    /\ \E t1, t2 \in ShareTargets :
          /\ t1 # t2
          /\ sharers =
                [calls |-> [c \in Callers |->
                              [pc |-> "read",
                               targets |-> IF c = 1 THEN t1 ELSE t2,
                               updated_docs |-> {},
                               ok |-> FALSE]],
                 lastWriter |-> 0]

\* the query on document_name and owner_user_id and the loop that builds
\* updated_docs; with no hit, or when the query raises, the call returns
\* False
ShareRead(c, raises) ==
    LET me == sharers.calls[c]
        results == {r \in index : r.document_name = SharedDoc
                                  /\ r.owner_user_id = SharedOwner}
        updated_docs == {[id |-> r.id,
                          allowed_users |-> UpdatedAllowed(r.allowed_users,
                                                           me.targets)]
                         : r \in results}
    IN  /\ me.pc = "read"
        /\ sharers' =
              IF raises \/ updated_docs = {}
              THEN [sharers EXCEPT !.calls[c].pc = "done"]
              ELSE [sharers EXCEPT !.calls[c].pc = "write",
                                   !.calls[c].updated_docs = updated_docs]
        /\ UNCHANGED <<index, result, last, chunker, temp, service, session>>

\* merge_documents(documents=updated_docs) and the return
ShareWrite(c, raises) ==
    LET me == sharers.calls[c]
    IN  /\ me.pc = "write"
        /\ IF raises
           THEN /\ index' = index
                /\ sharers' = [sharers EXCEPT !.calls[c].pc = "done"]
           ELSE /\ index' = Merge(index, me.updated_docs)
                /\ sharers' = [sharers EXCEPT !.calls[c].pc = "done",
                                              !.calls[c].ok = TRUE,
                                              !.lastWriter = c]
        /\ UNCHANGED <<result, last, chunker, temp, service, session>>

ShareReadStep == \E c \in Callers, raises \in BOOLEAN : ShareRead(c, raises)

ShareWriteStep == \E c \in Callers, raises \in BOOLEAN : ShareWrite(c, raises)

NextShare == ShareReadStep \/ ShareWriteStep

SpecShare == InitShare /\ [][NextShare]_vars

----------------------------------------------------------------------------
(* The callers of upload_document that write a temporary file:            *)
(* upload_from_blob (documentai.py) and the upload handler (app.py)        *)

TempCallers == {"blob", "app"}

\* temp_path, f"/tmp/{doc_name}" or os.path.join(temp_dir, name)
TempPath(name) == <<"/tmp", name>>

InitTemp ==
    /\ index = {}
    /\ result = FALSE
    /\ last = [op |-> "init", msg |-> "init"]
    /\ chunker = Idle
    /\ sharers = Idle
    /\ service = Idle
    /\ session = Idle
    /\ \E caller \in TempCallers, name \in DocNames \cup OtherNames,
          user_id \in Owners :
          temp = [pc |-> IF caller = "blob" THEN "download" ELSE "open",
                  caller |-> caller, name |-> name, user |-> user_id,
                  files |-> {}, returned |-> None]

\* requests.get(blob_url) and raise_for_status(); an exception ends the
\* method in its except branch, which returns False
BlobDownload(raises) ==
    /\ temp.pc = "download"
    /\ temp' = IF raises
               THEN [temp EXCEPT !.pc = "done", !.returned = FALSE]
               ELSE [temp EXCEPT !.pc = "open"]
    /\ UNCHANGED <<kb, chunker, sharers, service, session>>

\* open(temp_path, 'wb'): creates the file, or raises and creates nothing
OpenTemp(raises) ==
    /\ temp.pc = "open"
    /\ temp' = IF raises
               THEN [temp EXCEPT !.pc = "done", !.returned = FALSE]
               ELSE [temp EXCEPT !.pc = "write",
                                 !.files = @ \cup {TempPath(temp.name)}]
    /\ UNCHANGED <<kb, chunker, sharers, service, session>>

\* f.write(...) inside the with block: an exception closes the file and
\* goes to the except branch of the caller, which removes nothing
WriteTemp(raises) ==
    /\ temp.pc = "write"
    /\ temp' = IF raises
               THEN [temp EXCEPT !.pc = "done", !.returned = FALSE]
               ELSE [temp EXCEPT !.pc = "upload"]
    /\ UNCHANGED <<kb, chunker, sharers, service, session>>

\* upload_document(temp_path, ...): it catches its own exceptions and
\* returns True or False
UploadTemp(is_shared, n, embFail, raises) ==
    /\ temp.pc = "upload"
    /\ Upload(temp.name, temp.user,
              IF temp.caller = "app" THEN is_shared ELSE FALSE,
              IF temp.caller = "app" THEN NoUsers ELSE None,
              n, embFail, raises)
    /\ temp' = [temp EXCEPT !.pc = "remove", !.returned = result']
    /\ UNCHANGED <<chunker, sharers, service, session>>

\* os.remove(temp_path), in app.py under os.path.exists(temp_path); an
\* exception of os.remove goes to the except branch
RemoveTemp(raises) ==
    /\ temp.pc = "remove"
    /\ temp' =
          IF raises
          THEN [temp EXCEPT !.pc = "done", !.returned = FALSE]
          ELSE [temp EXCEPT !.pc = "done",
                            !.files = @ \ {TempPath(temp.name)}]
    /\ UNCHANGED <<kb, chunker, sharers, service, session>>

BlobDownloadStep == \E raises \in BOOLEAN : BlobDownload(raises)

OpenTempStep == \E raises \in BOOLEAN : OpenTemp(raises)

WriteTempStep == \E raises \in BOOLEAN : WriteTemp(raises)

UploadTempStep ==
    \E is_shared \in BOOLEAN, n \in TextLens,
       embFail \in SUBSET (0 .. MaxWords \div (chunk_size - overlap)),
       raises \in BOOLEAN :
       /\ embFail \subseteq
             {k - 1 : k \in DOMAIN CreateChunks(n, chunk_size, overlap)}
       /\ UploadTemp(is_shared, n, embFail, raises)

RemoveTempStep == \E raises \in BOOLEAN : RemoveTemp(raises)

NextTemp ==
    \/ BlobDownloadStep
    \/ OpenTempStep
    \/ WriteTempStep
    \/ UploadTempStep
    \/ RemoveTempStep

SpecTemp == InitTemp /\ [][NextTemp]_vars

----------------------------------------------------------------------------
(* __init__ and _create_index_if_not_exists against the search service *)

\* the number of knowledge base objects constructed
MaxConstruct == 3

IndexNames == {"documents-index", "other-index"}

\* `exists`: the indexes of the service; createCalls: the create_index calls
\* issued per name; created: the indexes the service has created per name
InitIndex ==
    /\ index = {}
    /\ result = FALSE
    /\ last = [op |-> "init", msg |-> "init"]
    /\ chunker = Idle
    /\ sharers = Idle
    /\ temp = Idle
    /\ session = Idle
    /\ \E present \in SUBSET IndexNames :
          service = [pc |-> "none", name |-> "documents-index",
                     exists |-> present,
                     createCalls |-> [n \in IndexNames |-> 0],
                     created |-> [n \in IndexNames |-> 0],
                     constructions |-> 0]

\* AzureAISearchKnowledgeBase(endpoint, key, index_name) up to the call of
\* _create_index_if_not_exists
Construct(index_name) ==
    /\ service.pc \in {"none", "ready", "failed"}
    /\ service.constructions < MaxConstruct
    /\ service' = [service EXCEPT !.pc = "get_index", !.name = index_name,
                                  !.constructions = @ + 1]
    /\ UNCHANGED <<kb, chunker, sharers, temp, session>>

\* index_client.get_index(index_name) in the try block: it returns, or it
\* raises because the index is absent or for another reason (`fails`); the
\* bare except takes every exception
GetIndex(fails) ==
    /\ service.pc = "get_index"
    /\ service' =
          IF service.name \in service.exists /\ ~fails
          THEN [service EXCEPT !.pc = "ready"]
          ELSE [service EXCEPT !.pc = "create_index"]
    /\ UNCHANGED <<kb, chunker, sharers, temp, session>>

\* index_client.create_index(index) in the except block: the service
\* rejects the creation of an index that exists, and the call may fail for
\* another reason (`fails`); its exception leaves __init__
CreateIndex(fails) ==
    /\ service.pc = "create_index"
    /\ service' =
          IF service.name \in service.exists \/ fails
          THEN [service EXCEPT !.pc = "failed",
                               !.createCalls[service.name] = @ + 1]
          ELSE [service EXCEPT !.pc = "ready",
                               !.createCalls[service.name] = @ + 1,
                               !.created[service.name] = @ + 1,
                               !.exists = @ \cup {service.name}]
    /\ UNCHANGED <<kb, chunker, sharers, temp, session>>

ConstructStep == \E index_name \in IndexNames : Construct(index_name)

GetIndexStep == \E fails \in BOOLEAN : GetIndex(fails)

CreateIndexStep == \E fails \in BOOLEAN : CreateIndex(fails)

NextIndex == ConstructStep \/ GetIndexStep \/ CreateIndexStep

SpecIndex == InitIndex /\ [][NextIndex]_vars

----------------------------------------------------------------------------
(* The Streamlit sign-in session (entraid_auth.py, app_with_auth.py)       *)
(*                                                                         *)
(* Every value kept in session_state is a sequence, so that a value can be *)
(* compared with None (the empty sequence).  The authorization server      *)
(* binds the code it issues to the code challenge, that is to the code     *)
(* verifier: the code exchange succeeds only with the code issued for the  *)
(* verifier that is sent with it.                                          *)

\* the values generate_random_string may return
Verifiers == {"v1", "v2"}

\* an attribute that session_state does not have
Absent == <<"absent">>

\* hashlib.sha256(code_verifier.encode()).hexdigest()[:32]
StateOf(v) == <<"sha256", v>>

\* the code the authorization endpoint issues for the challenge of v
CodeOf(v) == <<"code", v>>

\* the tokens returned for the code of v
AccessTokenOf(v) == <<"access_token", v>>

IdTokenOf(v, kind) ==
    IF kind = "none" THEN None ELSE <<"id_token", v, kind>>

IdTokenKinds == {"none", "unparsable", "valid"}

\* parse_jwt: the payload, or None
ParseJwt(token) == IF token[3] = "valid" THEN <<"payload">> ELSE None

Forged == <<"forged">>

\* what the query string of a callback may carry as code and as state
CallbackCodes == {CodeOf(v) : v \in Verifiers} \cup {Forged, Absent}

CallbackStates == {StateOf(v) : v \in Verifiers} \cup {Forged, Absent}

\* session_state after initialize_auth_session
NewSessionState ==
    [authenticated |-> FALSE, access_token |-> None, user_info |-> None,
     id_token |-> Absent, code_verifier |-> Absent, auth_state |-> Absent]

\* s: session_state; files: the verifiers saved by _save_auth_state, each
\* under its state; op, returned, callback: the last call, what it
\* returned and the query parameters of the last callback
InitAuth ==
    /\ index = {}
    /\ result = FALSE
    /\ last = [op |-> "init", msg |-> "init"]
    /\ chunker = Idle
    /\ sharers = Idle
    /\ temp = Idle
    /\ service = Idle
    /\ session = [s |-> NewSessionState, files |-> {}, op |-> "init",
                  returned |-> "none",
                  callback |-> [code |-> Absent, state |-> Absent]]

\* a rerun that has lost session_state: the script initialises a new one
NewSession ==
    /\ session' = [session EXCEPT !.s = NewSessionState, !.op = "new",
                                  !.returned = "none"]
    /\ UNCHANGED <<kb, chunker, sharers, temp, service>>

\* start_login, shown by the app while the session is not authenticated
StartLogin(code_verifier) ==
    /\ ~session.s.authenticated
    /\ session' = [session EXCEPT
                      !.s.code_verifier = <<code_verifier>>,
                      !.s.auth_state = StateOf(code_verifier),
                      !.files = @ \cup {code_verifier},
                      !.op = "start_login",
                      !.returned = "url"]
    /\ UNCHANGED <<kb, chunker, sharers, temp, service>>

\* _load_auth_state(state): the verifier saved under that state, or None
LoadAuthState(state) ==
    IF \E v \in session.files : StateOf(v) = state
    THEN <<CHOOSE v \in session.files : StateOf(v) = state>>
    ELSE None

\* handle_callback, called by the app while the session is not
\* authenticated.  hasError: the query has an `error`; hostOk: the token
\* endpoint answers; kind: the id_token of the response; graphOk: the Graph
\* call returns the profile
HandleCallback(hasError, code, state, hostOk, kind, graphOk) ==
    LET s0 == session.s
        fromSession == s0.code_verifier \notin {Absent, None}
        code_verifier == IF fromSession THEN s0.code_verifier
                         ELSE LoadAuthState(state)
        files1 == IF fromSession \/ code_verifier = None THEN session.files
                  ELSE session.files \ {code_verifier[1]}
        exchanged == /\ hostOk
                     /\ code = CodeOf(code_verifier[1])
        id_token == IdTokenOf(code_verifier[1], kind)
        s1 == [s0 EXCEPT !.access_token = AccessTokenOf(code_verifier[1]),
                         !.id_token = id_token]
        id_payload == IF id_token = None THEN None ELSE ParseJwt(id_token)
        s2 == IF id_payload # None
              THEN [s1 EXCEPT !.user_info = <<"user_info", "id_token">>]
              ELSE s1
        s3 == IF graphOk
              THEN [s2 EXCEPT !.user_info = <<"user_info", "graph">>]
              ELSE s2
        s4 == [s3 EXCEPT !.authenticated = TRUE,
                         !.auth_state = None,
                         !.code_verifier = None]
        called == [session EXCEPT !.op = "handle_callback",
                                  !.callback = [code |-> code,
                                                state |-> state]]
    IN  /\ ~session.s.authenticated
        /\ session' =
              IF hasError \/ code = Absent \/ state = Absent
              THEN [called EXCEPT !.returned = "false"]
              ELSE IF code_verifier = None
              THEN [called EXCEPT !.returned = "false"]
              ELSE IF ~exchanged
              THEN [called EXCEPT !.returned = "false", !.files = files1]
              ELSE IF graphOk /\ s2.user_info = None
              THEN \* None.update(...) raises AttributeError
                   [called EXCEPT !.returned = "raised", !.files = files1,
                                  !.s = s2]
              ELSE [called EXCEPT !.returned = "true", !.files = files1,
                                  !.s = s4]
        /\ UNCHANGED <<kb, chunker, sharers, temp, service>>

\* logout, offered by the app while the session is authenticated
Logout ==
    /\ session.s.authenticated
    /\ session' =
          [session EXCEPT
              !.s.authenticated = FALSE,
              !.s.access_token = None,
              !.s.user_info = None,
              !.s.code_verifier = IF @ = Absent THEN Absent ELSE None,
              !.s.auth_state = IF @ = Absent THEN Absent ELSE None,
              !.op = "logout",
              !.returned = "none"]
    /\ UNCHANGED <<kb, chunker, sharers, temp, service>>

StartLoginStep == \E v \in Verifiers : StartLogin(v)

HandleCallbackStep ==
    \E hasError \in BOOLEAN, code \in CallbackCodes, state \in CallbackStates,
       hostOk \in BOOLEAN, kind \in IdTokenKinds, graphOk \in BOOLEAN :
       HandleCallback(hasError, code, state, hostOk, kind, graphOk)

NextAuth == NewSession \/ StartLoginStep \/ HandleCallbackStep \/ Logout

SpecAuth == InitAuth /\ [][NextAuth]_vars

----------------------------------------------------------------------------
(* Properties *)

\* the visibility predicate: owner_user_id == u OR is_shared == true OR
\* u in allowed_users
Visible(r, u) ==
    r.owner_user_id = u \/ r.is_shared = TRUE \/ u \in Elems(r.allowed_users)

Matches(r, doc_name, user_id) ==
    r.document_name = doc_name /\ r.owner_user_id = user_id

\* C1: every chunk that search returns for a user is a chunk of the index,
\* and every chunk of the index that it stands for satisfies the visibility
\* predicate for that user, on the hybrid and on the keyword-only path.
C1_SearchReturnsOnlyVisible ==
    last.op = "search" =>
        \A i \in DOMAIN result :
            /\ \E r \in index : RetrievedChunk(r) = result[i]
            /\ \A r \in index :
                  RetrievedChunk(r) = result[i] => Visible(r, last.user)

\* a keyword-only search has returned a chunk while the index holds a chunk
\* that the user may not see
C1_Witness ==
    /\ last.op = "search"
    /\ last.msg = "ok"
    /\ last.keywordOnly
    /\ result # <<>>
    /\ \E r \in index : ~Visible(r, last.user)

\* C2: all chunks with the same (document_name, owner_user_id) carry the
\* same is_shared and the same allowed_users.
C2_SharingHomogeneous ==
    \A r1, r2 \in index :
        Matches(r2, r1.document_name, r1.owner_user_id) =>
            /\ r1.is_shared = r2.is_shared
            /\ r1.allowed_users = r2.allowed_users

\* C3: an upload never changes the owner of an existing chunk record of a
\* document with the same name (two owners uploading the same name do not
\* overwrite each other's records).
C3_NoCrossOwnerOverwrite ==
    [][last'.op = "upload" =>
          \A r \in index : \A r2 \in index' :
              (r2.id = r.id /\ r2.document_name = r.document_name) =>
                  r2.owner_user_id = r.owner_user_id]_vars

\* a call in which the host raised returns False or [] and changes nothing
RaisedChangesNothing ==
    last'.msg = "error" =>
        /\ index' = index
        /\ result' = IF last'.op \in {"search", "list"} THEN <<>> ELSE FALSE

\* C4: a delete without is_admin by a user who owns no chunk of the
\* document returns False with the permission-denied message and leaves the
\* index unchanged (as does a delete in which the host raises).
C4_DeleteByNonOwnerDenied ==
    [][/\ RaisedChangesNothing
       /\ (/\ last'.op = "delete"
           /\ last'.msg # "error"
           /\ ~last'.is_admin
           /\ ~\E r \in index : Matches(r, last'.name, last'.user))
          => /\ result' = FALSE
             /\ last'.msg = "permission denied"
             /\ index' = index]_vars

\* a non-owner has been denied the deletion of a document that exists
C4_Witness ==
    /\ last.op = "delete"
    /\ last.msg = "permission denied"
    /\ ~last.is_admin
    /\ \E r \in index : r.document_name = last.name
    /\ ~\E r \in index : Matches(r, last.name, last.user)

\* C5: every chunk record's allowed_users contains its owner_user_id.
C5_OwnerAlwaysAllowed ==
    \A r \in index : InList(r.owner_user_id, r.allowed_users)

\* a share has extended the allow-list of a chunk beyond its owner
C5_Witness ==
    /\ last.op = "share"
    /\ last.msg = "shared"
    /\ \E r \in index : /\ Matches(r, last.name, last.user)
                        /\ Elems(r.allowed_users) # {r.owner_user_id}

\* C6: share changes only chunks whose document_name and owner_user_id both
\* match, creates and removes none, and when no chunk matches it returns
\* False and leaves the index unchanged.
C6_ShareOnlyOwnChunks ==
    [][/\ RaisedChangesNothing
       /\ (last'.op = "share" /\ last'.msg # "error") =>
             /\ Ids(index') = Ids(index)
             /\ \A r \in index :
                   r \notin index' => Matches(r, last'.name, last'.user)
             /\ (~\E r \in index : Matches(r, last'.name, last'.user)) =>
                   /\ result' = FALSE
                   /\ last'.msg = "not found"
                   /\ index' = index]_vars

\* a user who does not own an existing document has tried to share it
C6_Witness ==
    /\ last.op = "share"
    /\ last.msg = "not found"
    /\ result = FALSE
    /\ \E r \in index : r.document_name = last.name
    /\ ~\E r \in index : Matches(r, last.name, last.user)

\* C7: a successful share leaves in every matching chunk the union of its
\* previous allowed_users and the targets, without duplicates, and the same
\* share called again changes nothing.
C7_ShareIdempotent ==
    [][/\ (last'.op = "share" /\ last'.msg = "shared") =>
             \A r \in index :
                 Matches(r, last'.name, last'.user) =>
                     \E r2 \in index' :
                         /\ r2.id = r.id
                         /\ Elems(r2.allowed_users) =
                               Elems(r.allowed_users) \cup Elems(last'.targets)
                         /\ NoDuplicates(r2.allowed_users)
       /\ (/\ last.op = "share" /\ last.msg = "shared"
           /\ last'.op = "share" /\ last'.msg # "error"
           /\ last'.name = last.name
           /\ last'.user = last.user
           /\ last'.targets = last.targets) => index' = index
       /\ RaisedChangesNothing]_vars

\* the same share has succeeded twice in a row on a document of bob that is
\* now shared with alice
C7_Witness ==
    /\ last.op = "share"
    /\ last.msg = "shared"
    /\ last.again
    /\ \E r \in index : /\ Matches(r, last.name, last.user)
                        /\ Elems(r.allowed_users) = {"alice", "bob"}

SameButAllowed(r, r2) ==
    [r2 EXCEPT !.allowed_users = r.allowed_users] = r

\* C8, as stated: while a record exists, no upload, share or delete changes
\* its content or content_vector; only allowed_users changes, and only by
\* share.
C8_ContentNeverChanged ==
    [][\A r \in index : \A r2 \in index' :
          r2.id = r.id =>
              /\ r2.content = r.content
              /\ r2.content_vector = r.content_vector
              /\ SameButAllowed(r, r2)
              /\ (r2 # r => last'.op = "share")]_vars

\* C8, amended: share and delete never change the content or content_vector
\* of a record; share changes nothing but allowed_users; an upload replaces
\* exactly the records whose ids it writes and leaves the others unchanged.
C8_ContentChangedOnlyByUpsert ==
    [][\A r \in index : \A r2 \in index' :
          r2.id = r.id =>
              /\ (r2 # r => last'.op \in {"share", "upload"})
              /\ (last'.op = "share" => SameButAllowed(r, r2))
              /\ (last'.op = "upload" /\ r2 # r) => r2.id \in last'.written]_vars

\* an upload has written a record of a document next to a record of the
\* same document that an earlier upload of another text left behind
C8_Witness ==
    /\ last.op = "upload"
    /\ last.msg = "uploaded"
    /\ \E r1, r2 \in index :
          /\ r1.id \in last.written
          /\ r2.id \notin last.written
          /\ r1.document_name = r2.document_name
          /\ r1.content.text # r2.content.text

ListedNames == {result[i].name : i \in DOMAIN result}

C10_NoSurvivingChunkFails ==
    (/\ last.op = "upload" /\ last.msg # "error"
     /\ last.dropped # {} /\ last.written = {}) =>
        result = FALSE

\* C11: an upload whose extracted text has no word returns False and writes
\* nothing to the index.
C11_EmptyTextWritesNothing ==
    [][(last'.op = "upload" /\ last'.msg # "error" /\ last'.words = 0) =>
          /\ result' = FALSE
          /\ index' = index]_vars

\* a supported file without text has been uploaded to an index that already
\* holds records
C11_Witness ==
    /\ last.op = "upload"
    /\ last.msg = "no text"
    /\ last.words = 0
    /\ last.name \in DocNames
    /\ result = FALSE
    /\ index # {}

\* C15: when the embedding of the query fails and the host answers the
\* keyword-only query, search reports no error and returns the projections
\* of that query's hits, all of which pass the access filter of the user.
C15_KeywordFallback ==
    [][last'.op = "search" =>
          \A u \in Users : \A hits \in MatchQuery(index, top_k) :
             (/\ last'.msg # "error" =>
                   /\ last'.user = u
                   /\ last'.keywordOnly
                   /\ Len(result') = Len(hits)
                   /\ \A i \in DOMAIN hits :
                         result'[i] = RetrievedChunk(hits[i])
              /\ Search(u, top_k, FALSE, hits, FALSE)) =>
                /\ last'.msg = "ok"
                /\ last'.keywordOnly
                /\ \A i \in DOMAIN hits :
                      hits[i] \in index /\ AccessFilter(hits[i], u)
                /\ result' = [i \in DOMAIN hits |-> RetrievedChunk(hits[i])]
                /\ index' = index]_vars

\* a keyword-only search by a user who owns nothing has returned a chunk
C15_Witness ==
    /\ last.op = "search"
    /\ last.msg = "ok"
    /\ last.keywordOnly
    /\ Len(result) >= 1
    /\ \A i \in DOMAIN result : result[i].owner # last.user

\* the names of the documents that have a chunk in the index
IndexedNames(idx) == {r.document_name : r \in idx}

\* C16: a delete that returns success leaves no chunk record with that
\* document_name, whoever owns it; a document absent from the index comes
\* back only by an upload of that name, and no search or list returns a
\* document that has no chunk in the index.
C16_DeletedDocumentAbsent ==
    [][/\ (last'.op = "delete" /\ last'.msg = "deleted") =>
             /\ result' = TRUE
             /\ last'.name \notin IndexedNames(index')
       /\ \A d \in IndexedNames(index') \ IndexedNames(index) :
             /\ last'.op = "upload"
             /\ last'.msg = "uploaded"
             /\ last'.name = d
       /\ last'.op = "search" =>
             \A i \in DOMAIN result' :
                result'[i].document_name \in IndexedNames(index')
       /\ last'.op = "list" =>
             \A i \in DOMAIN result' :
                result'[i].name \in IndexedNames(index')]_vars

\* a user without is_admin has deleted a document while another document
\* stays in the index
C16_Witness ==
    /\ last.op = "delete"
    /\ last.msg = "deleted"
    /\ ~last.is_admin
    /\ result = TRUE
    /\ last.name \notin IndexedNames(index)
    /\ index # {}

\* C17: a search or list whose index query fails does not return the value
\* that a call which succeeds and matches nothing returns.
C17_FailureDistinctFromEmpty ==
    (last.op \in {"search", "list"} /\ last.msg = "error") => result # <<>>

\* C18: an upload that reports failure leaves the index unchanged, and an
\* upload that reports success leaves at least one chunk of the document in
\* the index.
C18_UploadNeverHalfApplied ==
    [][last'.op = "upload" =>
          /\ result' = FALSE => index' = index
          /\ result' = TRUE => last'.name \in IndexedNames(index')]_vars

\* C19: an upload in which the embedding of some chunks fails returns True,
\* writes every other chunk under the index it has in the chunker's output,
\* with that chunk's content, and writes nothing for the dropped chunks.
C19_DropsOnlyFailedChunk ==
    [][(last'.op = "upload" /\ last'.msg = "uploaded") =>
          LET chunks == CreateChunks(last'.words, chunk_size, overlap)
              safe   == SafeDocName(last'.name)
          IN  /\ result' = TRUE
              /\ last'.dropped \subseteq {k - 1 : k \in DOMAIN chunks}
              /\ \A k \in DOMAIN chunks :
                    IF (k - 1) \in last'.dropped
                    THEN {r \in index' : r.id = <<safe, k - 1>>} =
                         {r \in index : r.id = <<safe, k - 1>>}
                    ELSE \E r \in index' :
                            /\ r.id = <<safe, k - 1>>
                            /\ r.chunk_id = k - 1
                            /\ r.content = chunks[k]
                            /\ r.content_vector = Embedding(chunks[k])
                            /\ r.document_name = last'.name]_vars

\* an upload of a text of two chunks has dropped chunk 0 and written chunk 1
\* under index 1
C19_Witness ==
    /\ last.op = "upload"
    /\ last.msg = "uploaded"
    /\ result = TRUE
    /\ last.dropped = {0}
    /\ last.written = {<<SafeDocName(last.name), 1>>}
    /\ \E r \in index : /\ r.id = <<SafeDocName(last.name), 1>>
                        /\ r.chunk_id = 1
                        /\ r.content.lo = chunk_size - overlap

\* C20: a share creates no record and removes none; it leaves id, content,
\* content_vector, document_name, chunk index, owner_user_id and is_shared of
\* every record as they were, and every record that does not match the
\* document and the owner wholly unchanged.
C20_ShareFrame ==
    [][last'.op = "share" =>
          /\ Cardinality(index') = Cardinality(index)
          /\ \A r \in index :
                \E r2 \in index' :
                   /\ r2.id = r.id
                   /\ r2.content = r.content
                   /\ r2.content_vector = r.content_vector
                   /\ r2.document_name = r.document_name
                   /\ r2.chunk_id = r.chunk_id
                   /\ r2.user_id = r.user_id
                   /\ r2.owner_user_id = r.owner_user_id
                   /\ r2.is_shared = r.is_shared
                   /\ (last'.msg = "error"
                       \/ ~Matches(r, last'.name, last'.user)) => r2 = r]_vars

\* a share has added a user to the shared chunks of a document while the
\* index also holds a chunk that does not match
C20_Witness ==
    /\ last.op = "share"
    /\ last.msg = "shared"
    /\ ~last.again
    /\ \E r \in index : /\ Matches(r, last.name, last.user)
                        /\ r.is_shared
                        /\ last.user # "alice"
                        /\ InList("alice", r.allowed_users)
    /\ \E r \in index : ~Matches(r, last.name, last.user)

\* C21: a delete with is_admin removes every chunk of the document, whoever
\* owns them, and returns True; a delete that is past the ownership check
\* (is_admin, or the caller owns a chunk) and finds no chunk of that name
\* returns False with the not-found message and leaves the index unchanged.
C21_AdminDeleteAndNotFound ==
    [][(last'.op = "delete" /\ last'.msg # "error") =>
          LET named == {r \in index : r.document_name = last'.name}
              passed == \/ last'.is_admin
                        \/ \E r \in index : Matches(r, last'.name, last'.user)
          IN  /\ (last'.is_admin /\ named # {}) =>
                    /\ result' = TRUE
                    /\ last'.msg = "deleted"
                    /\ index' = index \ named
              /\ (passed /\ named = {}) =>
                    /\ result' = FALSE
                    /\ last'.msg = "not found"
                    /\ index' = index]_vars

\* carol, who never owns a chunk, has deleted a document with is_admin while
\* another document stays in the index
C21_Witness ==
    /\ last.op = "delete"
    /\ last.msg = "deleted"
    /\ last.is_admin
    /\ last.user = "carol"
    /\ result = TRUE
    /\ \A r \in index : r.owner_user_id # "carol"
    /\ index # {}
    /\ last.name \notin IndexedNames(index)

\* the positions of `results` at which a document name occurs first
FirstSeen(results) ==
    {i \in DOMAIN results :
        \A j \in 1 .. (i - 1) :
           results[j].document_name # results[i].document_name}

\* `summaries` holds, in the order in which the names occur first in
\* `results`, one summary per name, with the owner and is_shared of the
\* first record of that name and the number of records of that name
SummaryOf(summaries, results) ==
    /\ Len(summaries) = Cardinality(FirstSeen(results))
    /\ \A k \in DOMAIN summaries :
          \E i \in FirstSeen(results) :
             /\ Cardinality({j \in FirstSeen(results) : j <= i}) = k
             /\ summaries[k] =
                   [name |-> results[i].document_name,
                    owner |-> results[i].owner_user_id,
                    is_shared |-> results[i].is_shared,
                    chunks |-> Cardinality(
                       {j \in DOMAIN results :
                           results[j].document_name =
                              results[i].document_name})]

C26_ReuploadReplacesDocument ==
    [][(last'.op = "upload" /\ last'.msg = "uploaded") =>
          {r.id : r \in {x \in index' : x.document_name = last'.name}}
             = last'.written]_vars

\* C27: an upload never overwrites a chunk record of a document with
\* another name: a record that keeps its id keeps its document_name.
C27_NoCrossNameOverwrite ==
    [][\A r \in index : \A r2 \in index' :
          r2.id = r.id => r2.document_name = r.document_name]_vars

----------------------------------------------------------------------------
(* Properties of the chunker *)

ValidParams == chunker.size > chunker.ov /\ chunker.ov >= 0

\* ceil(a / b) for b > 0
Ceil(a, b) == (a + b - 1) \div b

\* C12: for chunk_size > overlap >= 0 and a text of N > chunk_size words the
\* chunker returns ceil((N - overlap) / (chunk_size - overlap)) chunks.
C12_ChunkCount ==
    (chunker.pc = "done" /\ ValidParams /\ chunker.n > chunker.size) =>
        /\ ~chunker.raised
        /\ Len(chunker.out) =
              Ceil(chunker.n - chunker.ov, chunker.size - chunker.ov)

\* the words lo .. hi - 1 of a window
WindowWords(w) == [k \in 1 .. (w.hi - w.lo) |-> w.lo + k - 1]

DropLeading(s, k) == IF Len(s) <= k THEN <<>> ELSE SubSeq(s, k + 1, Len(s))

\* the chunks one after the other, each but the first without its leading
\* `ov` words
RECURSIVE Reassemble(_, _)
Reassemble(chunks, ov) ==
    IF chunks = <<>> THEN <<>>
    ELSE IF Len(chunks) = 1 THEN WindowWords(chunks[1])
    ELSE Reassemble(SubSeq(chunks, 1, Len(chunks) - 1), ov)
         \o DropLeading(WindowWords(chunks[Len(chunks)]), ov)

\* C13: for chunk_size > overlap >= 0 the i-th chunk (from 0) is the window
\* [i*(chunk_size - overlap), min(N, i*(chunk_size - overlap) + chunk_size)),
\* the chunks without their leading overlaps give back the words 0 .. N-1 in
\* order, and 2400 words with the defaults give [0:1000), [800:1800),
\* [1600:2400).
C13_ChunkWindows ==
    (chunker.pc = "done" /\ ValidParams) =>
        LET step == chunker.size - chunker.ov
        IN  /\ ~chunker.raised
            /\ \A i \in DOMAIN chunker.out :
                  /\ chunker.out[i].lo = (i - 1) * step
                  /\ chunker.out[i].hi =
                        Min(chunker.n, (i - 1) * step + chunker.size)
            /\ Reassemble(chunker.out, chunker.ov) =
                  [k \in 1 .. chunker.n |-> k - 1]
            /\ chunker.n = 2400 =>
                  chunker.out = << [text |-> 2400, lo |-> 0, hi |-> 1000],
                                   [text |-> 2400, lo |-> 800, hi |-> 1800],
                                   [text |-> 2400, lo |-> 1600, hi |-> 2400] >>

\* the chunker has cut a text into overlapping chunks the last of which is
\* shorter than chunk_size
C13_Witness ==
    /\ chunker.pc = "done"
    /\ ValidParams
    /\ chunker.ov > 0
    /\ Len(chunker.out) >= 3
    /\ chunker.out[Len(chunker.out)].hi - chunker.out[Len(chunker.out)].lo
          < chunker.size

\* C14: parameters that violate 0 <= overlap < chunk_size are rejected with
\* an error, no chunk sequence is returned.
C14_InvalidParamsRejected ==
    (chunker.pc = "done" /\ ~ValidParams) => chunker.raised

----------------------------------------------------------------------------
(* Properties of concurrent shares *)

\* both calls have returned True
BothDone ==
    \A c \in Callers : sharers.calls[c].pc = "done" /\ sharers.calls[c].ok

SharedChunks == {r \in index : Matches(r, SharedDoc, SharedOwner)}

\* every chunk carries the allowed_users that the last writer computed for it
LastWriteWins ==
    \A r \in SharedChunks :
       \E u \in sharers.calls[sharers.lastWriter].updated_docs :
          u.id = r.id /\ u.allowed_users = r.allowed_users

\* C22: once two concurrent shares of one document with different targets
\* have both written and returned, all chunks of the document carry the
\* same allowed_users, the union computed by the call that wrote last.
C22_SharesConverge ==
    (sharers # Idle /\ BothDone /\ sharers.lastWriter # 0) =>
        /\ \A r1, r2 \in SharedChunks : r1.allowed_users = r2.allowed_users
        /\ LastWriteWins

\* the part of C22 that does not depend on the chunks having started with
\* one allowed_users: the last write wins on every chunk
SharesLastWriteWins ==
    (sharers # Idle /\ BothDone /\ sharers.lastWriter # 0) => LastWriteWins

----------------------------------------------------------------------------
(* Properties of the temporary files *)

\* C24: when the upload operation has ended, on whatever path, no temporary
\* file that it created is left.
C24_TempFileRemoved ==
    (temp # Idle /\ temp.pc = "done") => temp.files = {}

----------------------------------------------------------------------------
(* Properties of the index creation *)

\* C25: while the index exists no construction issues a create_index call
\* for it, also when get_index fails for another reason than its absence,
\* and the service creates each index at most once.
C25_EnsureIndexIdempotent ==
    [][service.pc # "idle" =>
          \A n \in IndexNames :
             /\ n \in service.exists =>
                   service'.createCalls[n] = service.createCalls[n]
             /\ service'.created[n] <= 1]_vars

\* the part of C25 that holds: the service creates each index at most once,
\* and never one that exists
IndexCreatedAtMostOnce ==
    [][service.pc # "idle" =>
          \A n \in IndexNames :
             /\ service'.created[n] <= 1
             /\ n \in service.exists =>
                   service'.created[n] = service.created[n]]_vars

----------------------------------------------------------------------------
(* Properties of the sign-in session *)

\* C28: whenever the session is authenticated, user_info is not None and
\* access_token is a token obtained from a code exchange.
C28_AuthenticatedHasUserInfo ==
    (session # Idle /\ session.s.authenticated) =>
        /\ session.s.user_info # None
        /\ session.s.access_token \in {AccessTokenOf(v) : v \in Verifiers}

\* the part of C28 about the token: an authenticated session holds the
\* access token of a code exchange
AuthenticatedHasToken ==
    (session # Idle /\ session.s.authenticated) =>
        session.s.access_token \in {AccessTokenOf(v) : v \in Verifiers}

\* C29: a callback authenticates the session only when its state parameter
\* is the state that start_login stored for the login attempt.
C29_StateChecked ==
    [][(/\ session # Idle
        /\ ~session.s.authenticated
        /\ session'.s.authenticated) =>
           session'.callback.state = session.s.auth_state]_vars

\* C30: after logout the session is not authenticated and holds no
\* access_token, id_token, user_info, code_verifier or auth_state.
C30_LogoutClearsCredentials ==
    (session # Idle /\ session.op = "logout") =>
        /\ ~session.s.authenticated
        /\ session.s.access_token = None
        /\ session.s.id_token \in {None, Absent}
        /\ session.s.user_info = None
        /\ session.s.code_verifier \in {None, Absent}
        /\ session.s.auth_state \in {None, Absent}

\* the part of C30 that holds: everything but id_token is cleared
LogoutClearsButIdToken ==
    (session # Idle /\ session.op = "logout") =>
        /\ ~session.s.authenticated
        /\ session.s.access_token = None
        /\ session.s.user_info = None
        /\ session.s.code_verifier \in {None, Absent}
        /\ session.s.auth_state \in {None, Absent}

====
